---- MODULE Spec2Model ----
(***************************************************************************)
(* Verification model of the Synergy AI backends:                          *)
(*   flask_backend/firebase_service.py   FirebaseService (mock fallback)   *)
(*   flask_backend/enhanced_*.py         the enhanced predictor classes    *)
(*   Backend/energy_predictor.py         EnergyPredictorAI                 *)
(*   Backend/main.py, Backend/app.py, flask_backend/app.py  HTTP handlers  *)
(* Each component has its own specification over the shared variables.     *)
(***************************************************************************)
EXTENDS Integers, Sequences, FiniteSets, TLC

(***************************************************************************)
(* Bounds                                                                  *)
(***************************************************************************)
MaxTime == 1            \* the clock int(time.time()) takes the values 0..MaxTime
MaxRecords == 2         \* conflicts and AI predictions the mock database holds

(***************************************************************************)
(* State                                                                   *)
(***************************************************************************)
\* FirebaseService (flask_backend/firebase_service.py)
VARIABLES fb_pc,        \* "new" before __init__ ran, "ready" after it returned
          apps,         \* firebase_admin._apps is non-empty
          db_set,       \* self.db is the firebase db module (TRUE) or None
          is_connected, \* self.is_connected
          has_mock,     \* hasattr(self, 'mock_data')
          mock_data,    \* self.mock_data (meaningful when has_mock)
          now,          \* int(time.time())
          sdk_failed,   \* firebase_admin.initialize_app raised in __init__
          writes_done,  \* remote writes of __init__ that succeeded (3 = all)
          fb_last       \* the last public operation and what it returned

fbVars == <<fb_pc, apps, db_set, is_connected, has_mock, mock_data,
            now, sdk_failed, writes_done, fb_last>>

\* EnhancedSpaceOptimizerAI.detect_conflicts
VARIABLES det_pc,       \* "input": the caller builds current_data; "done"
          det_data,     \* current_data, the list of space dicts
          det_result    \* what detect_conflicts returned

detVars == <<det_pc, det_data, det_result>>

\* EnhancedEnergyPredictorAI and EnhancedSpaceOptimizerAI (flask_backend)
VARIABLES ee_trained,   \* EnhancedEnergyPredictorAI.is_trained
          ee_r2,        \* model_metrics['individual_models'][m]['test_r2'], in 1/100
          ee_trainings, \* completed train_ensemble_model calls
          ee_last,      \* the last call on the energy predictor and its outcome
          so_trained,   \* EnhancedSpaceOptimizerAI.is_trained
          so_trainings, \* completed train_model calls
          so_last       \* the last call on the space optimizer and its outcome

predVars == <<ee_trained, ee_r2, ee_trainings, ee_last,
              so_trained, so_trainings, so_last>>

\* EnergyPredictorAI (Backend/energy_predictor.py)
VARIABLES ep_pc,        \* "import": the module is being imported; "ready"
          ep_trained,   \* self.is_trained
          ep_encoders,  \* the columns self.label_encoders holds (fitted)
          ep_has_features, \* self.feature_columns was stored by a training
          ep_features,  \* the categorical columns among self.feature_columns
          ep_scaler,    \* self.scaler has been fitted
          ep_model,     \* self.model has been fitted
          ep_model_cols, \* the categorical columns self.model was fitted on
          ep_last       \* the last call on the predictor and its outcome

epVars == <<ep_pc, ep_trained, ep_encoders, ep_has_features, ep_features,
            ep_scaler, ep_model, ep_model_cols, ep_last>>

\* the HTTP applications (Backend/main.py, Backend/app.py, flask_backend/app.py)
VARIABLES employees,    \* Backend/main.py: current_data["employees"]
          http_last     \* the last request handled and the response to it

httpVars == <<employees, http_last>>

\* flask_backend/app.py: the endpoints behind jwt_required
VARIABLES jwt_issued,   \* the access tokens login has created: [id, exp]
          jwt_now,      \* the time, in hours
          jwt_last      \* the last request to flask_backend/app.py and its answer

jwtVars == <<jwt_issued, jwt_now, jwt_last>>

\* Backend/main.py: refresh_data_periodically, the background task
VARIABLES loop_pc,      \* where the task is: "occupancy", "space",
                        \* "environmental", "sleep", "caught", "retry", "dead"
          loop_passes,  \* refresh passes that completed (saturating)
          loop_errors,  \* errors the except branch logged (saturating)
          loop_slept,   \* seconds slept so far (saturating)
          loop_last     \* how the last finished pass ended and the wait after it

loopVars == <<loop_pc, loop_passes, loop_errors, loop_slept, loop_last>>

\* Backend/main.py: the space-data endpoints
VARIABLES spaces,          \* current_data["spaces"]
          spaces_detailed, \* current_data["spaces_detailed"]
          space_last       \* the last space-data endpoint called

spaceVars == <<spaces, spaces_detailed, space_last>>

\* Backend/firebase_service.py: initialize_firebase and the data-access helpers
VARIABLES fs_apps,       \* firebase_admin._apps is non-empty
          fs_app,        \* the global firebase_app ("None" or "app")
          fs_pc,         \* per thread: where its call of initialize_firebase is
          fs_calls,      \* per thread: calls it has started
          fs_init_calls, \* invocations of firebase_admin.initialize_app
          fs_result,     \* per thread: how its last call ended
          fs_overlap     \* two calls have been in progress at the same time

fsVars == <<fs_apps, fs_app, fs_pc, fs_calls, fs_init_calls, fs_result, fs_overlap>>

notFB == <<detVars, predVars, epVars, httpVars, jwtVars, loopVars, spaceVars, fsVars>>
notDet == <<fbVars, predVars, epVars, httpVars, jwtVars, loopVars, spaceVars, fsVars>>
notPred == <<fbVars, detVars, epVars, httpVars, jwtVars, loopVars, spaceVars, fsVars>>
notEP == <<fbVars, detVars, predVars, httpVars, jwtVars, loopVars, spaceVars, fsVars>>
notHttp == <<fbVars, detVars, predVars, epVars, jwtVars, loopVars, spaceVars, fsVars>>
notJwt == <<fbVars, detVars, predVars, epVars, httpVars, loopVars, spaceVars, fsVars>>
notLoop == <<fbVars, detVars, predVars, epVars, httpVars, jwtVars, spaceVars, fsVars>>
notSpace == <<fbVars, detVars, predVars, epVars, httpVars, jwtVars, loopVars, fsVars>>
notFs == <<fbVars, detVars, predVars, epVars, httpVars, jwtVars, loopVars, spaceVars>>

(***************************************************************************)
(* FirebaseService (flask_backend/firebase_service.py)                     *)
(***************************************************************************)
Company == {"demo_company", "acme"}
ModelTypes == {"space", "energy"}
Resolutions == {"moved"}
SampleSpaceIds == {"desk_1_01", "meeting_1_1"}
Occupancies == {0, 4}   \* counts passed to update_space_occupancy
Limits == {1, 10}       \* limit of get_recent_predictions (default 10)
SampleEmails == {"employee1@demo.com", "employee2@demo.com"}

EmptyMap == <<>>

\* dict.get(key, default)
Get(m, k, default) == IF k \in DOMAIN m THEN m[k] ELSE default

\* m[k] = v on a dict
Put(m, k, v) == [x \in (DOMAIN m) \cup {k} |-> IF x = k THEN v ELSE m[x]]

\* _initialize_mock_database: the six empty collections
InitializeMockDatabase ==
    [companies |-> EmptyMap, space_data |-> EmptyMap, energy_data |-> EmptyMap,
     ai_predictions |-> EmptyMap, conflicts |-> EmptyMap,
     user_sessions |-> EmptyMap]

\* _generate_sample_spaces: id -> current_occupancy of the generated spaces
GenerateSampleSpaces == [s \in SampleSpaceIds |-> 0]

\* _generate_sample_employees: the e-mail addresses of the generated employees
GenerateSampleEmployees == SampleEmails

SampleCompany ==
    [company_id |-> "demo_company", name |-> "Demo Corporation",
     spaces |-> GenerateSampleSpaces, employees |-> GenerateSampleEmployees]

\* the 24 hourly readings of _generate_and_store_sample_data
SampleEnergyData ==
    [h \in 1..24 |-> [hour |-> h - 1,
                      total_consumption |-> 150 + (h - 13) * (h - 13) * 2]]

SampleSpaceData ==
    [h \in 1..24 |-> [hour |-> h - 1, total_capacity |-> 200,
                      total_occupancy |->
                          IF 8 <= h - 1 /\ h - 1 <= 18
                          THEN (IF h - 1 \in {10, 11, 14, 15} THEN 160 ELSE 120)
                          ELSE 20]]

\* _generate_and_store_sample_data: with a mock the readings go into it,
\* without one they are written to the remote database (not program state)
GenerateAndStoreSampleData(hm, md) ==
    IF hm
    THEN [md EXCEPT !.energy_data = Put(@, "demo_company", SampleEnergyData),
                    !.space_data = Put(@, "demo_company", SampleSpaceData)]
    ELSE md

\* _initialize_database_structure. Without a mock its writes go to the remote
\* database; the first one that raises ends it and the exception is swallowed
\* by the handler at line 109, so nothing reaches the caller.
InitializeDatabaseStructure(hm, md) ==
    IF hm
    THEN GenerateAndStoreSampleData(
             hm, [md EXCEPT !.companies = Put(@, "demo_company", SampleCompany)])
    ELSE GenerateAndStoreSampleData(hm, md)

NoOp == [op |-> "none", company |-> "none", id |-> -1, arg |-> "none", ret |-> "None"]

\* __init__ with _initialize_firebase inlined. sdk_ok: initialize_app returns;
\* k: how many of the three remote writes of the structure succeed.
Construct ==
    /\ fb_pc = "new"
    /\ fb_pc' = "ready"
    /\ \E sdk_ok \in BOOLEAN, k \in 0..3 :
         IF ~apps /\ ~sdk_ok
         THEN \* initialize_app raised: the except branch builds the mock
              /\ sdk_failed' = TRUE
              /\ writes_done' = 0
              /\ has_mock' = TRUE
              /\ mock_data' = InitializeMockDatabase
              /\ is_connected' = TRUE
              /\ UNCHANGED <<apps, db_set>>
         ELSE /\ sdk_failed' = FALSE
              /\ writes_done' = k
              /\ apps' = TRUE
              /\ db_set' = TRUE
              /\ is_connected' = TRUE
              /\ mock_data' = InitializeDatabaseStructure(has_mock, mock_data)
              /\ UNCHANGED has_mock
    /\ UNCHANGED <<now, fb_last>>
    /\ UNCHANGED notFB

\* health_check()['using_mock']
HealthCheckUsingMock == has_mock

\* health_check()['status']
HealthCheckStatus == IF is_connected THEN "healthy" ELSE "disconnected"

(* ---- data access; the mock branch of each method. Without a mock the     *)
(* ---- method talks to the remote database, which is not program state.    *)

\* get_company_data
GetCompanyData(c) == Get(mock_data.companies, c, "None")

\* list[-hours:]
LastN(list, n) ==
    IF n = 0 \/ n >= Len(list) THEN list
    ELSE SubSeq(list, Len(list) - n + 1, Len(list))

\* get_space_data
GetSpaceData(c, hours) == LastN(Get(mock_data.space_data, c, <<>>), hours)

\* get_energy_data
GetEnergyData(c, hours) == LastN(Get(mock_data.energy_data, c, <<>>), hours)

\* get_recent_predictions; model_type "None" is the default (no filter)
GetRecentPredictions(c, model_type, limit) ==
    LET predictions == Get(mock_data.ai_predictions, c, <<>>)
        IsType(p) == p.model_type = model_type
        filtered == IF model_type # "None"
                    THEN SelectSeq(predictions, IsType) ELSE predictions
    IN LastN(filtered, limit)

\* get_active_conflicts: the stored conflicts of the company with status open
GetActiveConflicts(c) ==
    LET conflicts == Get(mock_data.conflicts, c, EmptyMap)
    IN {conflicts[i] : i \in {j \in DOMAIN conflicts : conflicts[j].status = "open"}}

\* authenticate_user with a mock database: the demo administrator, or an
\* employee of demo_company with the demo password; "None" otherwise
AuthenticateUser(email, password) ==
    IF email = "admin@demo.com" /\ password = "password" THEN "admin_001"
    ELSE IF /\ "demo_company" \in DOMAIN mock_data.companies
            /\ email \in GetCompanyData("demo_company").employees
            /\ password = "password"
    THEN email
    ELSE "None"

\* the number of predictions the mock holds for the companies cs
RECURSIVE TotalPredictions(_)
TotalPredictions(cs) ==
    IF cs = {} THEN 0
    ELSE LET c == CHOOSE x \in cs : TRUE
         IN Len(Get(mock_data.ai_predictions, c, <<>>)) + TotalPredictions(cs \ {c})

\* the number of conflicts the mock holds for the companies cs
RECURSIVE TotalConflicts(_)
TotalConflicts(cs) ==
    IF cs = {} THEN 0
    ELSE LET c == CHOOSE x \in cs : TRUE
         IN Cardinality(DOMAIN Get(mock_data.conflicts, c, EmptyMap))
              + TotalConflicts(cs \ {c})

\* the mock database has room for one more record
MockHasRoom == TotalPredictions(Company) + TotalConflicts(Company) < MaxRecords

\* store_conflict keyed by the conflict id alone: every company sees it
MockStoreConflictShared(md, c, id) ==
    [md EXCEPT !.conflicts =
        [x \in Company |->
            Put(Get(md.conflicts, x, EmptyMap), id,
                [id |-> id, status |-> "open", company_id |-> c,
                 resolution |-> "none"])]]

\* store_conflict, mock branch: conflicts[company_id][conflict_id] = conflict_data
MockStoreConflict(md, c, id) ==
    LET cs == IF c \in DOMAIN md.conflicts THEN md.conflicts
              ELSE Put(md.conflicts, c, EmptyMap)
    IN [md EXCEPT !.conflicts =
          Put(cs, c, Put(cs[c], id,
              [id |-> id, status |-> "open", company_id |-> c,
               resolution |-> "none"]))]

\* resolve_conflict, mock branch: whether the guard of lines 397-398 holds
MockConflictKnown(md, c, id) ==
    c \in DOMAIN md.conflicts /\ id \in DOMAIN md.conflicts[c]

\* store_conflict: the id is conflict_<int(time.time())>
StoreConflict(c) ==
    /\ fb_pc = "ready"
    /\ IF has_mock
       THEN /\ MockConflictKnown(mock_data, c, now) \/ MockHasRoom
            /\ mock_data' = MockStoreConflict(mock_data, c, now)
            /\ fb_last' = [op |-> "store_conflict", company |-> c, id |-> now,
                           arg |-> "none", ret |-> "id"]
       ELSE \E ok \in BOOLEAN :
            /\ fb_last' = [op |-> "store_conflict", company |-> c, id |-> now,
                           arg |-> "none", ret |-> IF ok THEN "id" ELSE "None"]
            /\ UNCHANGED mock_data
    /\ UNCHANGED <<fb_pc, apps, db_set, is_connected, has_mock, now,
                   sdk_failed, writes_done>>
    /\ UNCHANGED notFB

\* resolve_conflict that records the resolution and forgets the status
MockResolveConflictNoStatus(md, c, id, resolution) ==
    [md EXCEPT !.conflicts[c][id].resolution = resolution]

\* resolve_conflict, mock branch, lines 399-401
MockResolveConflict(md, c, id, resolution) ==
    [md EXCEPT !.conflicts[c][id].status = "resolved",
               !.conflicts[c][id].resolution = resolution]

\* resolve_conflict. In the mock an unknown company or id falls off the end
\* of the function (no return statement: None).
ResolveConflict(c, id, resolution) ==
    /\ fb_pc = "ready"
    /\ IF has_mock
       THEN IF MockConflictKnown(mock_data, c, id)
            THEN /\ mock_data' = MockResolveConflict(mock_data, c, id, resolution)
                 /\ fb_last' = [op |-> "resolve_conflict", company |-> c, id |-> id,
                                arg |-> resolution, ret |-> "True"]
            ELSE /\ fb_last' = [op |-> "resolve_conflict", company |-> c, id |-> id,
                                arg |-> resolution, ret |-> "None"]
                 /\ UNCHANGED mock_data
       ELSE \E ok \in BOOLEAN :
            /\ fb_last' = [op |-> "resolve_conflict", company |-> c, id |-> id,
                           arg |-> resolution, ret |-> IF ok THEN "True" ELSE "False"]
            /\ UNCHANGED mock_data
    /\ UNCHANGED <<fb_pc, apps, db_set, is_connected, has_mock, now,
                   sdk_failed, writes_done>>
    /\ UNCHANGED notFB

\* store_ai_prediction, mock branch
MockStoreAiPrediction(md, c, model_type) ==
    LET ps == IF c \in DOMAIN md.ai_predictions THEN md.ai_predictions
              ELSE Put(md.ai_predictions, c, <<>>)
    IN [md EXCEPT !.ai_predictions =
          Put(ps, c, Append(ps[c], [model_type |-> model_type]))]

\* store_ai_prediction
StoreAiPrediction(c, model_type) ==
    /\ fb_pc = "ready"
    /\ IF has_mock
       THEN /\ MockHasRoom
            /\ mock_data' = MockStoreAiPrediction(mock_data, c, model_type)
       ELSE UNCHANGED mock_data
    /\ fb_last' = [op |-> "store_ai_prediction", company |-> c, id |-> -1,
                   arg |-> model_type, ret |-> "None"]
    /\ UNCHANGED <<fb_pc, apps, db_set, is_connected, has_mock, now,
                   sdk_failed, writes_done>>
    /\ UNCHANGED notFB

\* update_space_occupancy, mock branch: the first space with this id
MockUpdateSpaceOccupancy(md, c, space_id, occupancy) ==
    IF c \in DOMAIN md.companies /\ space_id \in DOMAIN md.companies[c].spaces
    THEN [md EXCEPT !.companies[c].spaces[space_id] = occupancy]
    ELSE md

\* update_space_occupancy
UpdateSpaceOccupancy(c, space_id, occupancy) ==
    /\ fb_pc = "ready"
    /\ IF has_mock
       THEN mock_data' = MockUpdateSpaceOccupancy(mock_data, c, space_id, occupancy)
       ELSE UNCHANGED mock_data
    /\ fb_last' = [op |-> "update_space_occupancy", company |-> c, id |-> -1,
                   arg |-> space_id, ret |-> "None"]
    /\ UNCHANGED <<fb_pc, apps, db_set, is_connected, has_mock, now,
                   sdk_failed, writes_done>>
    /\ UNCHANGED notFB

\* the clock int(time.time()) moves on
Tick ==
    /\ now < MaxTime
    /\ now' = now + 1
    /\ UNCHANGED <<fb_pc, apps, db_set, is_connected, has_mock, mock_data,
                   sdk_failed, writes_done, fb_last>>
    /\ UNCHANGED notFB

\* a further FirebaseService() is constructed; firebase_admin._apps is
\* module state and outlives the instance
NewInstance ==
    /\ fb_pc = "ready"
    /\ fb_pc' = "new"
    /\ db_set' = FALSE
    /\ is_connected' = FALSE
    /\ has_mock' = FALSE
    /\ mock_data' = InitializeMockDatabase
    /\ sdk_failed' = FALSE
    /\ writes_done' = 0
    /\ fb_last' = NoOp
    /\ UNCHANGED <<apps, now>>
    /\ UNCHANGED notFB

InitFB ==
    /\ fb_pc = "new"
    /\ apps = FALSE
    /\ db_set = FALSE
    /\ is_connected = FALSE
    /\ has_mock = FALSE
    /\ mock_data = InitializeMockDatabase
    /\ now = 0
    /\ sdk_failed = FALSE
    /\ writes_done = 0
    /\ fb_last = NoOp

FBStep ==
    \/ Construct
    \/ NewInstance
    \/ Tick
    \/ \E c \in Company : StoreConflict(c)
    \/ \E c \in Company, id \in 0..MaxTime, r \in Resolutions : ResolveConflict(c, id, r)
    \/ \E c \in Company, m \in ModelTypes : StoreAiPrediction(c, m)
    \/ \E c \in Company, s \in SampleSpaceIds, o \in Occupancies :
          UpdateSpaceOccupancy(c, s, o)

(***************************************************************************)
(* EnhancedSpaceOptimizerAI.detect_conflicts                               *)
(* (flask_backend/enhanced_space_optimizer.py)                             *)
(***************************************************************************)
MaxSpaces == 2          \* spaces in current_data

\* optimization_thresholds; the two occupancy ratios in percent
OccupancyWarning == 85
OccupancyCritical == 95
TemperatureMin == 20
TemperatureMax == 26
HumidityMin == 30
HumidityMax == 70
Co2Max == 1000
NoiseMax == 70

\* the readings a caller may send: each key present or missing
OccupancyReadings ==
    { EmptyMap,
      ("current_occupancy" :> 17) @@ ("capacity" :> 20),
      ("current_occupancy" :> 18) @@ ("capacity" :> 20),
      ("current_occupancy" :> 20) @@ ("capacity" :> 20),
      ("current_occupancy" :> 18) @@ ("capacity" :> 0),
      ("current_occupancy" :> 9) }

EnvironmentReadings ==
    { EmptyMap,
      ("temperature" :> 19),
      ("temperature" :> 27),
      ("temperature" :> 20) @@ ("humidity" :> 30) @@ ("co2_level" :> 1000)
          @@ ("noise_level" :> 70),
      ("temperature" :> 26) @@ ("humidity" :> 70),
      ("humidity" :> 29),
      ("humidity" :> 71),
      ("co2_level" :> 1001),
      ("noise_level" :> 71),
      ("temperature" :> 27) @@ ("humidity" :> 71) @@ ("co2_level" :> 1001)
          @@ ("noise_level" :> 71) }

SpaceReadings == {o @@ e : o \in OccupancyReadings, e \in EnvironmentReadings}

\* utilization > pct/100, with utilization = occupancy / capacity if
\* capacity > 0 else 0
UtilizationAbove(current_occupancy, capacity, pct) ==
    IF capacity > 0 THEN current_occupancy * 100 > pct * capacity ELSE FALSE

\* the overcrowding branch (critical, else warning)
OvercrowdingConflicts(space) ==
    LET current_occupancy == Get(space, "current_occupancy", 0)
        capacity == Get(space, "capacity", 10)
    IN IF UtilizationAbove(current_occupancy, capacity, OccupancyCritical)
       THEN <<[type |-> "critical_overcrowding", severity |-> "high"]>>
       ELSE IF UtilizationAbove(current_occupancy, capacity, OccupancyWarning)
       THEN <<[type |-> "overcrowding_warning", severity |-> "medium"]>>
       ELSE <<>>

\* the temperature check without its lower bound
TemperatureConflictsUpperOnly(space) ==
    LET temp == Get(space, "temperature", 22)
    IN IF temp > TemperatureMax
       THEN <<[type |-> "temperature_issue", severity |-> "medium"]>>
       ELSE <<>>

TemperatureConflicts(space) ==
    LET temp == Get(space, "temperature", 22)
    IN IF temp < TemperatureMin \/ temp > TemperatureMax
       THEN <<[type |-> "temperature_issue", severity |-> "medium"]>>
       ELSE <<>>

HumidityConflicts(space) ==
    LET humidity == Get(space, "humidity", 45)
    IN IF humidity < HumidityMin \/ humidity > HumidityMax
       THEN <<[type |-> "humidity_issue", severity |-> "low"]>>
       ELSE <<>>

Co2Conflicts(space) ==
    LET co2 == Get(space, "co2_level", 400)
    IN IF co2 > Co2Max
       THEN <<[type |-> "air_quality_issue", severity |-> "high"]>>
       ELSE <<>>

NoiseConflicts(space) ==
    LET noise == Get(space, "noise_level", 45)
    IN IF noise > NoiseMax
       THEN <<[type |-> "noise_issue", severity |-> "medium"]>>
       ELSE <<>>

\* space_conflicts of one loop iteration
SpaceConflicts(space) ==
    OvercrowdingConflicts(space) \o TemperatureConflicts(space)
        \o HumidityConflicts(space) \o Co2Conflicts(space) \o NoiseConflicts(space)

CountSeverity(cs, sev) == Cardinality({i \in DOMAIN cs : cs[i].severity = sev})

TotalSeverity(cs) ==
    CountSeverity(cs, "high") * 3 + CountSeverity(cs, "medium") * 2
        + CountSeverity(cs, "low")

\* the loop: one entry per space whose space_conflicts is not empty
RECURSIVE CollectConflicts(_)
CollectConflicts(data) ==
    IF data = <<>> THEN <<>>
    ELSE LET space == data[Len(data)]
             rest == CollectConflicts(SubSeq(data, 1, Len(data) - 1))
             cs == SpaceConflicts(space)
         IN IF cs # <<>>
            THEN Append(rest, [space_id |-> space["id"], conflicts |-> cs,
                               total_severity |-> TotalSeverity(cs)])
            ELSE rest

\* e goes behind every entry that is at least as severe (sorted is stable)
InsertBySeverity(sorted, e) ==
    LET k == Cardinality({i \in DOMAIN sorted :
                             sorted[i].total_severity >= e.total_severity})
    IN SubSeq(sorted, 1, k) \o <<e>> \o SubSeq(sorted, k + 1, Len(sorted))

\* sorted(conflicts, key=total_severity, reverse=True)
RECURSIVE SortBySeverity(_)
SortBySeverity(entries) ==
    IF entries = <<>> THEN <<>>
    ELSE InsertBySeverity(SortBySeverity(SubSeq(entries, 1, Len(entries) - 1)),
                          entries[Len(entries)])

\* the caller adds one space, with an id of its own, to current_data
AddSpace(readings) ==
    /\ det_pc = "input"
    /\ Len(det_data) < MaxSpaces
    /\ det_data' = Append(det_data, ("id" :> Len(det_data) + 1) @@ readings)
    /\ UNCHANGED <<det_pc, det_result>>
    /\ UNCHANGED notDet

\* detect_conflicts(current_data)
DetectConflicts ==
    /\ det_pc = "input"
    /\ det_pc' = "done"
    /\ det_result' = SortBySeverity(CollectConflicts(det_data))
    /\ UNCHANGED det_data
    /\ UNCHANGED notDet

InitDet ==
    /\ det_pc = "input"
    /\ det_data = <<>>
    /\ det_result = <<>>

DetStep ==
    \/ \E r \in SpaceReadings : AddSpace(r)
    \/ DetectConflicts

(***************************************************************************)
(* EnhancedEnergyPredictorAI (flask_backend/enhanced_energy_predictor.py)  *)
(* and EnhancedSpaceOptimizerAI.predict_utilization                        *)
(***************************************************************************)
MaxTrain == 2           \* completed explicit trainings of one predictor

\* self.models, in the order the dict is iterated
ModelOrder == <<"primary", "secondary", "linear">>
Models == {"primary", "secondary", "linear"}

\* test_r2 of a model after training, in 1/100 (r2_score may be negative)
R2Values == {-50, 5, 60}

\* model.predict(X_scaled)[0] of one model
PredValues == {-4, 7}

\* the floor 0.1 of a model's weight, in 1/100
MinWeight == 10

Max2(a, b) == IF a >= b THEN a ELSE b

\* weight = max(0.1, test_r2)
WeightNoFloor(r2) == r2

Weight(r2) == Max2(MinWeight, r2)

\* the loop of lines 386-394 over the first n models:
\* ensemble_prediction += prediction * weight; total_weight += weight
RECURSIVE EnsembleLoop(_, _, _)
EnsembleLoop(preds, r2, n) ==
    IF n = 0 THEN [ensemble_prediction |-> 0, total_weight |-> 0]
    ELSE LET acc == EnsembleLoop(preds, r2, n - 1)
             m == ModelOrder[n]
             weight == Weight(r2[m])
         IN [ensemble_prediction |-> acc.ensemble_prediction + preds[m] * weight,
             total_weight |-> acc.total_weight + weight]

NoPreds == [m \in Models |-> 0]

EELast(op, outcome, preds, num, den) ==
    [op |-> op, outcome |-> outcome, preds |-> preds, num |-> num, den |-> den]

\* `if not self.is_trained:` at the head of each predict method
AlwaysTrain(trained) == TRUE

NeedsTraining(trained) == ~trained

\* train_ensemble_model(), called by the application; it raises when a fit fails
TrainEnsembleModel ==
    /\ ee_trainings < MaxTrain
    /\ \/ /\ ee_last' = EELast("train_ensemble_model", "raised", NoPreds, 0, 1)
          /\ UNCHANGED <<ee_trained, ee_r2, ee_trainings>>
       \/ \E r2 \in [Models -> R2Values] :
          /\ ee_trained' = TRUE
          /\ ee_r2' = r2
          /\ ee_trainings' = ee_trainings + 1
          /\ ee_last' = EELast("train_ensemble_model", "returned", NoPreds, 0, 1)
    /\ UNCHANGED <<so_trained, so_trainings, so_last>>
    /\ UNCHANGED notPred

\* lines 349-426: the ensemble prediction with the metrics r2; it raises on
\* input the scalers or models reject
EnsemblePredict(op, r2) ==
    \/ ee_last' = EELast(op, "raised", NoPreds, 0, 1)
    \/ \E preds \in [Models -> PredValues] :
         LET e == EnsembleLoop(preds, r2, Len(ModelOrder))
         IN ee_last' = EELast(op, "returned", preds,
                              e.ensemble_prediction, e.total_weight)

\* the body shared by predict_energy_consumption and predict_24h_consumption:
\* train first when needed, then the ensemble prediction (of the last hour)
PredictEnergy(op) ==
    /\ IF NeedsTraining(ee_trained)
       THEN \/ \* train_ensemble_model raised; nothing catches it
               /\ ee_last' = EELast(op, "raised", NoPreds, 0, 1)
               /\ UNCHANGED <<ee_trained, ee_r2, ee_trainings>>
            \/ \E r2 \in [Models -> R2Values] :
               /\ ee_trained' = TRUE
               /\ ee_r2' = r2
               /\ ee_trainings' = ee_trainings + 1
               /\ EnsemblePredict(op, r2)
       ELSE /\ EnsemblePredict(op, ee_r2)
            /\ UNCHANGED <<ee_trained, ee_r2, ee_trainings>>
    /\ UNCHANGED <<so_trained, so_trainings, so_last>>
    /\ UNCHANGED notPred

PredictEnergyConsumption == PredictEnergy("predict_energy_consumption")

Predict24hConsumption == PredictEnergy("predict_24h_consumption")

\* EnhancedSpaceOptimizerAI.train_model()
TrainModel ==
    /\ so_trainings < MaxTrain
    /\ \/ /\ so_last' = [op |-> "train_model", outcome |-> "raised"]
          /\ UNCHANGED <<so_trained, so_trainings>>
       \/ /\ so_trained' = TRUE
          /\ so_trainings' = so_trainings + 1
          /\ so_last' = [op |-> "train_model", outcome |-> "returned"]
    /\ UNCHANGED <<ee_trained, ee_r2, ee_trainings, ee_last>>
    /\ UNCHANGED notPred

\* EnhancedSpaceOptimizerAI.predict_utilization(space_data)
PredictUtilization ==
    /\ IF NeedsTraining(so_trained)
       THEN \/ \* train_model raised; nothing catches it
               /\ so_last' = [op |-> "predict_utilization", outcome |-> "raised"]
               /\ UNCHANGED <<so_trained, so_trainings>>
            \/ /\ so_trained' = TRUE
               /\ so_trainings' = so_trainings + 1
               /\ \E outcome \in {"returned", "raised"} :
                    so_last' = [op |-> "predict_utilization", outcome |-> outcome]
       ELSE /\ \E outcome \in {"returned", "raised"} :
                 so_last' = [op |-> "predict_utilization", outcome |-> outcome]
            /\ UNCHANGED <<so_trained, so_trainings>>
    /\ UNCHANGED <<ee_trained, ee_r2, ee_trainings, ee_last>>
    /\ UNCHANGED notPred

InitPred ==
    /\ ee_trained = FALSE
    /\ ee_r2 = [m \in Models |-> 0]
    /\ ee_trainings = 0
    /\ ee_last = EELast("none", "none", NoPreds, 0, 1)
    /\ so_trained = FALSE
    /\ so_trainings = 0
    /\ so_last = [op |-> "none", outcome |-> "none"]

PredStep ==
    \/ TrainEnsembleModel
    \/ PredictEnergyConsumption
    \/ Predict24hConsumption
    \/ TrainModel
    \/ PredictUtilization

(***************************************************************************)
(* EnergyPredictorAI (Backend/energy_predictor.py)                         *)
(***************************************************************************)
\* the categorical columns a data frame may carry (of categorical_columns)
CategoricalColumns == {"day_of_week", "month", "is_holiday"}

EPLast(op, outcome) == [op |-> op, outcome |-> outcome]

\* predict without its guard
PredictNeverRefused(trained) == FALSE

\* `if not self.is_trained: raise ValueError(...)` at the head of predict
PredictRefused(trained) == ~trained

\* train(df) on a frame with the categorical columns cols. It raises before
\* preprocess_data touched anything ("early"), in the fit after
\* preprocess_data stored encoders, feature_columns and scaler ("fit"), or
\* completes ("none"); is_trained is set by its last statement.
TrainBody(cols, fail, last_ok, last_fail) ==
    IF fail = "early"
    THEN /\ ep_last' = last_fail
         /\ UNCHANGED <<ep_trained, ep_encoders, ep_has_features, ep_features,
                        ep_scaler, ep_model, ep_model_cols>>
    ELSE /\ ep_encoders' = ep_encoders \cup cols
         /\ ep_has_features' = TRUE
         /\ ep_features' = cols
         /\ ep_scaler' = TRUE
         /\ IF fail = "fit"
            THEN /\ ep_last' = last_fail
                 /\ UNCHANGED <<ep_trained, ep_model, ep_model_cols>>
            ELSE /\ ep_model' = TRUE
                 /\ ep_model_cols' = cols
                 /\ ep_trained' = TRUE
                 /\ ep_last' = last_ok

\* initialize_energy_predictor(), run when the module is imported: it trains
\* on generated data and swallows any exception (returns False)
InitializeEnergyPredictor ==
    /\ ep_pc = "import"
    /\ ep_pc' = "ready"
    /\ \E fail \in {"early", "fit", "none"} :
         TrainBody(CategoricalColumns, fail,
                   EPLast("initialize_energy_predictor", "True"),
                   EPLast("initialize_energy_predictor", "False"))
    /\ UNCHANGED notEP

\* train(df)
Train ==
    /\ ep_pc = "ready"
    /\ \E cols \in SUBSET CategoricalColumns, fail \in {"early", "fit", "none"} :
         TrainBody(cols, fail, EPLast("train", "returned"), EPLast("train", "raised"))
    /\ UNCHANGED ep_pc
    /\ UNCHANGED notEP

\* predict(df) on a frame with the categorical columns cols
Predict ==
    /\ ep_pc = "ready"
    /\ \E cols \in SUBSET CategoricalColumns :
         IF PredictRefused(ep_trained)
         THEN /\ ep_last' = EPLast("predict", "ValueError")
              /\ UNCHANGED <<ep_trained, ep_encoders, ep_has_features,
                             ep_features, ep_scaler, ep_model, ep_model_cols>>
         ELSE \* preprocess_data(df, None) fits an encoder for each new column;
              \* then the scaler, the column selection and the model accept
              \* only a frame with the columns they were fitted on
              /\ ep_encoders' = ep_encoders \cup cols
              /\ ep_last' = EPLast("predict",
                                   IF ep_scaler /\ ep_has_features /\ ep_model
                                      /\ cols = ep_features /\ cols = ep_model_cols
                                   THEN "returned" ELSE "raised")
              /\ UNCHANGED <<ep_trained, ep_has_features, ep_features,
                             ep_scaler, ep_model, ep_model_cols>>
    /\ UNCHANGED ep_pc
    /\ UNCHANGED notEP

InitEP ==
    /\ ep_pc = "import"
    /\ ep_trained = FALSE
    /\ ep_encoders = {}
    /\ ep_has_features = FALSE
    /\ ep_features = {}
    /\ ep_scaler = FALSE
    /\ ep_model = FALSE
    /\ ep_model_cols = {}
    /\ ep_last = EPLast("none", "none")

EPStep ==
    \/ InitializeEnergyPredictor
    \/ Train
    \/ Predict

(***************************************************************************)
(* HTTP handlers: Backend/main.py (FastAPI), Backend/app.py (Flask),       *)
(* flask_backend/app.py (Flask)                                            *)
(***************************************************************************)
MaxEmployees == 2       \* entries of current_data["employees"]

EmployeeNames == {"Asha", "Ravi"}
NoneVal == "<None>"

\* the strings a client may send as e-mail address or password
EmailStrings == {"", "user", "user@corp.com"}
PasswordStrings == {"", "secret"}

\* '@' in s
ContainsAt(s) == s = "user@corp.com"

\* `not s` of Python: None and the empty string are falsy
Falsy(s) == s = NoneVal \/ s = ""

\* an outcome of a handler body: it returned a response or raised
Returned(status, error, token) ==
    [raised |-> FALSE, exc |-> "none", status |-> status, error |-> error,
     token |-> token]
Raised(exc, status, detail) ==
    [raised |-> TRUE, exc |-> exc, status |-> status, error |-> detail,
     token |-> FALSE]

\* str(e) of an exception raised in a body
StrOfException(o) ==
    IF o.exc = "HTTPException" THEN ToString(o.status) \o ": " \o o.error
    ELSE o.error

Response(status, error, token, raised) ==
    [status |-> status, error |-> error, token |-> token, raised |-> raised]

\* Backend/main.py: try: <body> except Exception as e:
\*     raise HTTPException(status_code=500, detail=str(e))
\* HTTPException is an Exception, so one raised in the body is caught too.
FastApiTryExcept(o) ==
    IF o.raised
    THEN Response(500, StrOfException(o), FALSE, TRUE)
    ELSE Response(o.status, o.error, o.token, FALSE)

\* a Flask handler whose except branch answers with the default status
FlaskTryExceptNoStatus(o, message) ==
    IF o.raised
    THEN Response(200, message, FALSE, TRUE)
    ELSE Response(o.status, o.error, o.token, FALSE)

\* the Flask applications: try: <body> except Exception as e:
\*     return jsonify({... message ...}), 500
FlaskTryExcept(o, message) ==
    IF o.raised
    THEN Response(500, message, FALSE, TRUE)
    ELSE Response(o.status, o.error, o.token, FALSE)

HttpLast(app, handler, req, resp) == [app |-> app, handler |-> handler,
                                      req |-> req, resp |-> resp]

EmployeeIds(es) == {es[i].id : i \in DOMAIN es}

\* the first index whose employee has this id (0: none)
FirstIndex(es, id) ==
    IF id \in EmployeeIds(es)
    THEN CHOOSE i \in DOMAIN es :
            es[i].id = id /\ \A j \in DOMAIN es : es[j].id = id => i <= j
    ELSE 0

\* list.pop(i)
Pop(es, i) == SubSeq(es, 1, i - 1) \o SubSeq(es, i + 1, Len(es))

\* the subsequences of <<1, ..., n>>: the employees get_employees keeps
GeneratedEmployees(n) ==
    {[i \in 1..Cardinality(S) |->
        [id |-> CHOOSE x \in S : Cardinality({y \in S : y < x}) = i - 1,
         name |-> "Employee"]] : S \in SUBSET (1..n)}

\* Backend/main.py get_employees(limit, filters): the store is replaced
MainGetEmployees ==
    /\ \E limit \in 1..MaxEmployees, es \in GeneratedEmployees(MaxEmployees) :
         /\ \A i \in DOMAIN es : es[i].id <= limit
         /\ employees' = es
         /\ http_last' = HttpLast("main", "get_employees", [limit |-> limit],
                                  FastApiTryExcept(Returned(200, "none", FALSE)))
    /\ UNCHANGED notHttp

\* Backend/main.py add_employee
MainAddEmployee ==
    /\ Len(employees) < MaxEmployees
    /\ \E name \in EmployeeNames :
         /\ employees' = Append(employees, [id |-> Len(employees) + 1, name |-> name])
         /\ http_last' = HttpLast("main", "add_employee", [name |-> name],
                                  FastApiTryExcept(Returned(200, "none", FALSE)))
    /\ UNCHANGED notHttp

\* Backend/main.py update_employee
MainUpdateEmployee ==
    /\ \E id \in 1..(MaxEmployees + 1), name \in EmployeeNames :
         LET i == FirstIndex(employees, id)
         IN /\ employees' = IF i # 0 THEN [employees EXCEPT ![i].name = name]
                            ELSE employees
            /\ http_last' =
                 HttpLast("main", "update_employee", [id |-> id],
                          FastApiTryExcept(
                              IF i # 0 THEN Returned(200, "none", FALSE)
                              ELSE Raised("HTTPException", 404, "Employee not found")))
    /\ UNCHANGED notHttp

\* Backend/main.py delete_employee
MainDeleteEmployee ==
    /\ \E id \in 1..(MaxEmployees + 1) :
         LET i == FirstIndex(employees, id)
         IN /\ employees' = IF i # 0 THEN Pop(employees, i) ELSE employees
            /\ http_last' =
                 HttpLast("main", "delete_employee", [id |-> id],
                          FastApiTryExcept(
                              IF i # 0 THEN Returned(200, "none", FALSE)
                              ELSE Raised("HTTPException", 404, "Employee not found")))
    /\ UNCHANGED notHttp

\* Backend/main.py login(request: LoginRequest)
MainLogin ==
    /\ \E email \in EmailStrings, password \in PasswordStrings :
         http_last' =
            HttpLast("main", "login", [email |-> email, password |-> password],
                     FastApiTryExcept(
                         IF email # "" /\ password # ""
                         THEN Returned(200, "none", TRUE)
                         ELSE Raised("HTTPException", 401, "Invalid credentials")))
    /\ UNCHANGED employees
    /\ UNCHANGED notHttp

ReportTypes == {"csv", "excel", "pdf", "xml"}

\* Backend/main.py export_report of /api/dashboard/export/{report_type};
\* to_excel needs openpyxl, which may be missing
MainExportReport ==
    /\ \E report_type \in ReportTypes, openpyxl \in BOOLEAN :
         http_last' =
            HttpLast("main", "export_report",
                     [report_type |-> report_type, openpyxl |-> openpyxl],
                     FastApiTryExcept(
                         IF report_type \in {"csv", "pdf"} THEN Returned(200, "none", FALSE)
                         ELSE IF report_type = "excel"
                         THEN (IF openpyxl THEN Returned(200, "none", FALSE)
                               ELSE Raised("ModuleNotFoundError", 0,
                                           "No module named 'openpyxl'"))
                         ELSE Raised("HTTPException", 400, "Unsupported report type")))
    /\ UNCHANGED employees
    /\ UNCHANGED notHttp

\* the JSON bodies a client may post to a login endpoint: no JSON object at
\* all (get_json() gives None), or an object with some of the keys
LoginBodies ==
    {[json |-> FALSE, data |-> EmptyMap]} \cup
    {[json |-> TRUE, data |-> e @@ d @@ p] :
        e \in {EmptyMap} \cup {("email" :> x) : x \in EmailStrings},
        d \in {EmptyMap, ("demo@company.com" :> "user@corp.com")},
        p \in {EmptyMap} \cup {("password" :> x) : x \in PasswordStrings}}

\* flask_backend/app.py login, the body of the try block
FlaskBackendLoginBody(body) ==
    IF ~body.json
    THEN Raised("AttributeError", 0, "'NoneType' object has no attribute 'get'")
    ELSE LET email == Get(body.data, "demo@company.com", NoneVal)
             password == Get(body.data, "password", NoneVal)
         IN IF Falsy(email) \/ Falsy(password)
            THEN Returned(400, "Email and password required", FALSE)
            ELSE IF ContainsAt(email) /\ ~Falsy(password)
            THEN Returned(200, "none", TRUE)
            ELSE Returned(401, "Invalid credentials", FALSE)

\* flask_backend/app.py login
FlaskBackendLogin ==
    /\ \E body \in LoginBodies :
         http_last' = HttpLast("flask_backend", "login", body,
                               FlaskTryExcept(FlaskBackendLoginBody(body),
                                              "Internal server error"))
    /\ UNCHANGED employees
    /\ UNCHANGED notHttp

\* flask_backend/app.py resolve_conflict, for a request that passed
\* jwt_required: data.get('resolution', ...) on the posted JSON
FlaskBackendResolveConflict ==
    /\ \E json \in BOOLEAN :
         http_last' =
            HttpLast("flask_backend", "resolve_conflict",
                     [json |-> json, data |-> EmptyMap],
                     FlaskTryExcept(
                         IF json THEN Returned(200, "none", FALSE)
                         ELSE Raised("AttributeError", 0,
                                     "'NoneType' object has no attribute 'get'"),
                         "Internal server error"))
    /\ UNCHANGED employees
    /\ UNCHANGED notHttp

\* Backend/app.py mock_users: e-mail -> password
MockUsers == ("admin@synergy.com" :> "admin123") @@ ("employee@synergy.com" :> "emp123")

\* Backend/app.py login
BackendAppLogin ==
    /\ \E json \in BOOLEAN,
          email \in {NoneVal, "admin@synergy.com", "user@corp.com"},
          password \in {NoneVal, "admin123", "secret"} :
         http_last' =
            HttpLast("app", "login",
                     [json |-> json,
                      data |-> ("email" :> email) @@ ("password" :> password)],
                     FlaskTryExcept(
                         IF ~json
                         THEN Raised("AttributeError", 0,
                                     "'NoneType' object has no attribute 'get'")
                         ELSE IF email \in DOMAIN MockUsers /\ MockUsers[email] = password
                         THEN Returned(200, "none", TRUE)
                         ELSE Returned(401, "Invalid credentials", FALSE),
                         "Internal server error"))
    /\ UNCHANGED employees
    /\ UNCHANGED notHttp

InitHttp ==
    /\ employees = <<>>
    /\ http_last = HttpLast("none", "none", EmptyMap, Response(0, "none", FALSE, FALSE))

HttpStep ==
    \/ MainGetEmployees
    \/ MainAddEmployee
    \/ MainUpdateEmployee
    \/ MainDeleteEmployee
    \/ MainLogin
    \/ MainExportReport
    \/ FlaskBackendLogin
    \/ FlaskBackendResolveConflict
    \/ BackendAppLogin

(***************************************************************************)
(* flask_backend/app.py: the endpoints behind jwt_required                 *)
(***************************************************************************)
MaxClock == 24          \* the time runs from 0 to MaxClock hours
MaxTokens == 2          \* access tokens login creates

\* app.config['JWT_ACCESS_TOKEN_EXPIRES'] = timedelta(hours=24)
JwtAccessTokenExpires == 24

\* the hours that pass between two requests
ClockSteps == {12}

\* the routes decorated with @jwt_required()
ProtectedEndpoints ==
    {"logout", "get_dashboard_summary", "get_occupancy_data", "get_spaces_data",
     "get_environmental_data", "get_weekly_trend", "get_zone_heatmap",
     "get_employees", "get_detailed_spaces", "get_ai_predictions",
     "get_optimization_analytics", "get_energy_dashboard",
     "get_energy_predictions", "get_energy_optimization", "get_conflicts",
     "resolve_conflict", "export_report", "add_employee", "update_employee",
     "delete_employee", "add_space"}


NoToken == [kind |-> "none", id |-> 0, exp |-> 0]

\* what the Authorization header of a request may carry: nothing, something
\* that is no JWT, a JWT whose signature does not verify, or a token that
\* login created
RequestTokens ==
    {NoToken,
     [kind |-> "malformed", id |-> 0, exp |-> 0],
     [kind |-> "bad_signature", id |-> 0, exp |-> MaxClock + 1]}
    \cup {[kind |-> "issued", id |-> t.id, exp |-> t.exp] : t \in jwt_issued}

JwtLast(endpoint, token, status, error, body_ran) ==
    [endpoint |-> endpoint, token |-> token, at |-> jwt_now, status |-> status,
     error |-> error, body_ran |-> body_ran]

\* create_access_token: the token expires JWT_ACCESS_TOKEN_EXPIRES from now
CreateAccessToken ==
    [id |-> Cardinality(jwt_issued) + 1, exp |-> jwt_now + JwtAccessTokenExpires]

\* jwt_required(optional=True): a request without a token is let through
JwtOptional(token) ==
    IF token.kind = "none" THEN [ok |-> TRUE, status |-> 200, error |-> "none"]
    ELSE IF token.kind \in {"malformed", "bad_signature"}
    THEN [ok |-> FALSE, status |-> 401, error |-> "Invalid token"]
    ELSE IF jwt_now >= token.exp
    THEN [ok |-> FALSE, status |-> 401, error |-> "Token has expired"]
    ELSE [ok |-> TRUE, status |-> 200, error |-> "none"]

\* @jwt_required() with the three loaders of the application: a missing
\* token goes to unauthorized_loader, one that does not decode or verify to
\* invalid_token_loader, one past its exp to expired_token_loader
JwtRequired(token) ==
    IF token.kind = "none"
    THEN [ok |-> FALSE, status |-> 401, error |-> "Authorization token required"]
    ELSE IF token.kind \in {"malformed", "bad_signature"}
    THEN [ok |-> FALSE, status |-> 401, error |-> "Invalid token"]
    ELSE IF jwt_now >= token.exp
    THEN [ok |-> FALSE, status |-> 401, error |-> "Token has expired"]
    ELSE [ok |-> TRUE, status |-> 200, error |-> "none"]

\* POST /api/auth/login: a 200 answer carries a new access token
JwtLogin ==
    /\ \E body \in LoginBodies :
         LET r == FlaskTryExcept(FlaskBackendLoginBody(body), "Internal server error")
         IN IF r.status = 200
            THEN /\ Cardinality(jwt_issued) < MaxTokens
                 /\ jwt_issued' = jwt_issued \cup {CreateAccessToken}
                 /\ jwt_last' = JwtLast("login", NoToken, 200, "none", TRUE)
            ELSE /\ UNCHANGED jwt_issued
                 /\ jwt_last' = JwtLast("login", NoToken, r.status, r.error, TRUE)
    /\ UNCHANGED jwt_now
    /\ UNCHANGED notJwt

\* GET /api/health
JwtHealthCheck ==
    /\ \E token \in RequestTokens, raised \in BOOLEAN :
         jwt_last' = JwtLast("health_check", token,
                             IF raised THEN 500 ELSE 200,
                             IF raised THEN "unhealthy" ELSE "none", TRUE)
    /\ UNCHANGED <<jwt_issued, jwt_now>>
    /\ UNCHANGED notJwt

\* a request to a route behind @jwt_required(); the body of the handler
\* answers 200, or 500 from its except branch
ProtectedRequest ==
    /\ \E endpoint \in ProtectedEndpoints, token \in RequestTokens,
          raised \in BOOLEAN :
         LET v == JwtRequired(token)
         IN jwt_last' =
              IF v.ok
              THEN JwtLast(endpoint, token,
                           IF raised /\ endpoint # "logout" THEN 500 ELSE 200,
                           IF raised /\ endpoint # "logout"
                           THEN "Internal server error" ELSE "none", TRUE)
              ELSE JwtLast(endpoint, token, v.status, v.error, FALSE)
    /\ UNCHANGED <<jwt_issued, jwt_now>>
    /\ UNCHANGED notJwt

\* time passes
JwtTick ==
    /\ \E d \in ClockSteps :
         /\ jwt_now + d <= MaxClock
         /\ jwt_now' = jwt_now + d
    /\ UNCHANGED <<jwt_issued, jwt_last>>
    /\ UNCHANGED notJwt

InitJwt ==
    /\ jwt_issued = {}
    /\ jwt_now = 0
    /\ jwt_last = JwtLast("none", NoToken, 0, "none", FALSE)

JwtStep ==
    \/ JwtLogin
    \/ JwtHealthCheck
    \/ ProtectedRequest
    \/ JwtTick

(***************************************************************************)
(* Backend/main.py: refresh_data_periodically                              *)
(***************************************************************************)
MaxPasses == 3          \* the counters of passes and errors stop here
MaxSlept == 4           \* loop_slept stops at MaxSlept * SleepAfterSuccess

\* await asyncio.sleep(30) at the end of the try block
SleepAfterSuccess == 30
\* await asyncio.sleep(30) in the except branch
SleepAfterError == 30

Min2(a, b) == IF a < b THEN a ELSE b

Slept(d) == Min2(loop_slept + d, MaxSlept * SleepAfterSuccess)

LoopLast(outcome, failed_step, delay) ==
    [outcome |-> outcome, failed_step |-> failed_step, delay |-> delay]

\* a task whose exception is not caught: the coroutine ends
ExceptionEscapes(step) == "dead"

\* except Exception as e: the exception of any refresh step lands here
ExceptionCaught(step) == "caught"

\* the step after this one in the try block
NextInPass(step) ==
    IF step = "occupancy" THEN "space"
    ELSE IF step = "space" THEN "environmental"
    ELSE "sleep"

\* await get_occupancy_data() / get_space_data() / get_environmental_data():
\* the handler returns, or raises the HTTPException of its own except branch
RefreshStep(step) ==
    /\ loop_pc = step
    /\ \/ /\ loop_pc' = NextInPass(step)
          /\ UNCHANGED loop_last
       \/ /\ loop_pc' = ExceptionCaught(step)
          /\ loop_last' = LoopLast("raising", step, 0)
    /\ UNCHANGED <<loop_passes, loop_errors, loop_slept>>
    /\ UNCHANGED notLoop

RefreshOccupancy == RefreshStep("occupancy")

RefreshSpace == RefreshStep("space")

RefreshEnvironmental == RefreshStep("environmental")

\* the sleep that ends a pass without exception; then while True goes round
SleepAfterPass ==
    /\ loop_pc = "sleep"
    /\ loop_pc' = "occupancy"
    /\ loop_passes' = Min2(loop_passes + 1, MaxPasses)
    /\ loop_slept' = Slept(SleepAfterSuccess)
    /\ loop_last' = LoopLast("succeeded", "none", SleepAfterSuccess)
    /\ UNCHANGED loop_errors
    /\ UNCHANGED notLoop

\* logger.error(...) of the except branch
LogError ==
    /\ loop_pc = "caught"
    /\ loop_pc' = "retry"
    /\ loop_errors' = Min2(loop_errors + 1, MaxPasses)
    /\ UNCHANGED <<loop_passes, loop_slept, loop_last>>
    /\ UNCHANGED notLoop

\* the sleep of the except branch; then while True goes round
SleepBeforeRetry ==
    /\ loop_pc = "retry"
    /\ loop_pc' = "occupancy"
    /\ loop_slept' = Slept(SleepAfterError)
    /\ loop_last' = LoopLast("raised", loop_last.failed_step, SleepAfterError)
    /\ UNCHANGED <<loop_passes, loop_errors>>
    /\ UNCHANGED notLoop

\* startup_event: asyncio.create_task(refresh_data_periodically())
InitLoop ==
    /\ loop_pc = "occupancy"
    /\ loop_passes = 0
    /\ loop_errors = 0
    /\ loop_slept = 0
    /\ loop_last = LoopLast("none", "none", 0)

LoopStep ==
    \/ RefreshOccupancy
    \/ RefreshSpace
    \/ RefreshEnvironmental
    \/ SleepAfterPass
    \/ LogError
    \/ SleepBeforeRetry

(***************************************************************************)
(* Backend/main.py: get_space_data and get_detailed_spaces                 *)
(***************************************************************************)
MaxLimit == 2           \* the limit of get_detailed_spaces is 1..MaxLimit

\* current = np.random.randint(10, 60)
CurrentLow == 10
CurrentHigh == 60
\* capacity = np.random.randint(50, 80)
CapacityLow == 50
CapacityHigh == 80

\* the smallest and the largest value of np.random.randint(low, high), which
\* draws from low..high-1
RandIntCorners(low, high) == {low, high - 1}

SpaceNames == <<"Open Desks", "Meeting Rooms", "Quiet Zones", "Collaborative Areas">>

\* the capacity of each entry of space_types
SpaceTypeCapacity == <<45, 12, 20, 30, 16, 25, 8, 35>>

\* current / capacity, kept as a fraction
Ratio(current, capacity) == [num |-> current, den |-> capacity]

\* get_space_data: one entry per name, current and capacity drawn independently
MainGetSpaceData ==
    /\ \E current \in [DOMAIN SpaceNames -> RandIntCorners(CurrentLow, CurrentHigh)],
          capacity \in [DOMAIN SpaceNames -> RandIntCorners(CapacityLow, CapacityHigh)] :
         spaces' = [i \in DOMAIN SpaceNames |->
                      [name |-> SpaceNames[i], current |-> current[i],
                       capacity |-> capacity[i],
                       utilization |-> Ratio(current[i], capacity[i])]]
    /\ space_last' = "get_space_data"
    /\ UNCHANGED spaces_detailed
    /\ UNCHANGED notSpace

\* int(space_type["capacity"] * 0.8)
EightyPercent(capacity) == (capacity * 8) \div 10

\* the entries of a function on a set of indices as a list in index order
RECURSIVE ListOf(_, _)
ListOf(f, S) ==
    IF S = {} THEN <<>>
    ELSE LET i == CHOOSE x \in S : \A y \in S : x <= y
         IN <<f[i]>> \o ListOf(f, S \ {i})

\* get_detailed_spaces(search, status_filter, limit): the first limit entries
\* of space_types, without those the filters drop; current is drawn by
\* np.random.randint(0, int(capacity * 0.8)), here its smallest or largest value
MainGetDetailedSpaces ==
    /\ \E limit \in 1..MaxLimit :
       \E kept \in SUBSET (1..limit) :
       \E high \in [1..limit -> BOOLEAN] :
         LET current == [i \in 1..limit |->
                           IF high[i] THEN EightyPercent(SpaceTypeCapacity[i]) - 1
                           ELSE 0]
         IN spaces_detailed' =
               ListOf([i \in 1..limit |->
                         [id |-> i, current |-> current[i],
                          capacity |-> SpaceTypeCapacity[i],
                          utilization |-> Ratio(current[i], SpaceTypeCapacity[i])]],
                      kept)
    /\ space_last' = "get_detailed_spaces"
    /\ UNCHANGED spaces
    /\ UNCHANGED notSpace

InitSpace ==
    /\ spaces = <<>>
    /\ spaces_detailed = <<>>
    /\ space_last = "none"

SpaceStep ==
    \/ MainGetSpaceData
    \/ MainGetDetailedSpaces

(***************************************************************************)
(* Backend/firebase_service.py: initialize_firebase, get_db_ref            *)
(***************************************************************************)
MaxThreads == 2         \* request threads
MaxCalls == 2           \* calls of a helper each thread makes

Threads == 1..MaxThreads

\* a thread calls initialize_firebase, directly or through get_db_ref
CallInitializeFirebase(t) ==
    /\ fs_pc[t] = "idle"
    /\ fs_calls[t] < MaxCalls
    /\ fs_calls' = [fs_calls EXCEPT ![t] = @ + 1]
    /\ fs_pc' = [fs_pc EXCEPT ![t] = "check"]
    /\ fs_overlap' = (fs_overlap \/ \E u \in Threads \ {t} : fs_pc[u] # "idle")
    /\ UNCHANGED <<fs_apps, fs_app, fs_init_calls, fs_result>>
    /\ UNCHANGED notFs

\* if not firebase_admin._apps:
CheckApps(t) ==
    /\ fs_pc[t] = "check"
    /\ fs_pc' = [fs_pc EXCEPT ![t] = IF fs_apps THEN "return" ELSE "certificate"]
    /\ UNCHANGED <<fs_apps, fs_app, fs_calls, fs_init_calls, fs_result, fs_overlap>>
    /\ UNCHANGED notFs

\* cred = credentials.Certificate(FIREBASE_CRED_PATH): reads the file, which
\* may be missing or no valid key
Certificate(t) ==
    /\ fs_pc[t] = "certificate"
    /\ \/ /\ fs_pc' = [fs_pc EXCEPT ![t] = "initialize_app"]
          /\ UNCHANGED fs_result
       \/ /\ fs_pc' = [fs_pc EXCEPT ![t] = "idle"]
          /\ fs_result' = [fs_result EXCEPT ![t] = "certificate_error"]
    /\ UNCHANGED <<fs_apps, fs_app, fs_calls, fs_init_calls, fs_overlap>>
    /\ UNCHANGED notFs

\* firebase_admin.initialize_app raises ValueError when the default app
\* already exists
AppAlreadyExists(registered) == registered

\* firebase_app = firebase_admin.initialize_app(cred, {...})
InitializeApp(t) ==
    /\ fs_pc[t] = "initialize_app"
    /\ fs_init_calls' = fs_init_calls + 1
    /\ IF AppAlreadyExists(fs_apps)
       THEN /\ fs_pc' = [fs_pc EXCEPT ![t] = "idle"]
            /\ fs_result' = [fs_result EXCEPT ![t] = "ValueError"]
            /\ UNCHANGED <<fs_apps, fs_app>>
       ELSE /\ fs_apps' = TRUE
            /\ fs_app' = "app"
            /\ fs_pc' = [fs_pc EXCEPT ![t] = "return"]
            /\ UNCHANGED fs_result
    /\ UNCHANGED <<fs_calls, fs_overlap>>
    /\ UNCHANGED notFs

\* return firebase_app (and db.reference(path) in get_db_ref)
ReturnApp(t) ==
    /\ fs_pc[t] = "return"
    /\ fs_pc' = [fs_pc EXCEPT ![t] = "idle"]
    /\ fs_result' = [fs_result EXCEPT ![t] = fs_app]
    /\ UNCHANGED <<fs_apps, fs_app, fs_calls, fs_init_calls, fs_overlap>>
    /\ UNCHANGED notFs

InitFs ==
    /\ fs_apps = FALSE
    /\ fs_app = "None"
    /\ fs_pc = [t \in Threads |-> "idle"]
    /\ fs_calls = [t \in Threads |-> 0]
    /\ fs_init_calls = 0
    /\ fs_result = [t \in Threads |-> "none"]
    /\ fs_overlap = FALSE

FsStep ==
    \/ \E t \in Threads : CallInitializeFirebase(t)
    \/ \E t \in Threads : CheckApps(t)
    \/ \E t \in Threads : Certificate(t)
    \/ \E t \in Threads : InitializeApp(t)
    \/ \E t \in Threads : ReturnApp(t)

(***************************************************************************)
(* Specifications                                                          *)
(***************************************************************************)
vars == <<fbVars, detVars, predVars, epVars, httpVars, jwtVars, loopVars, spaceVars, fsVars>>

Init == InitFB /\ InitDet /\ InitPred /\ InitEP /\ InitHttp /\ InitJwt /\ InitLoop /\ InitSpace /\ InitFs

SpecFB == Init /\ [][FBStep]_vars

SpecDet == Init /\ [][DetStep]_vars

SpecPred == Init /\ [][PredStep]_vars

SpecEP == Init /\ [][EPStep]_vars

SpecHttp == Init /\ [][HttpStep]_vars

SpecJwt == Init /\ [][JwtStep]_vars

SpecLoop == Init /\ [][LoopStep]_vars

\* the event loop runs the task whenever it can take a step: an awaited
\* handler returns or raises, a sleep ends
SpecLoopLive == Init /\ [][LoopStep]_vars /\ WF_vars(LoopStep)

SpecSpace == Init /\ [][SpaceStep]_vars

SpecFs == Init /\ [][FsStep]_vars

(***************************************************************************)
(* Claims about FirebaseService                                            *)
(***************************************************************************)

\* C1: when __init__ has returned and the Firebase SDK could not be
\* initialised or the first database write failed, the service uses the mock
\* database: mock_data exists and health_check reports using_mock = true.
C1_FallbackToMock ==
    (fb_pc = "ready" /\ (sdk_failed \/ writes_done = 0))
        => (has_mock /\ HealthCheckUsingMock)

\* the part of C1 the code does keep: a failed initialize_app ends in the mock
C1_SdkFailureFallsBack ==
    (fb_pc = "ready" /\ sdk_failed) => (has_mock /\ HealthCheckUsingMock)

\* C2: in the mock database a conflict just stored has status 'open' and is
\* returned by get_active_conflicts for its company; right after
\* resolve_conflict returned True the conflict has status 'resolved', carries
\* the given resolution and get_active_conflicts no longer returns it.
C2_ConflictLifecycle ==
    has_mock =>
      /\ fb_last.op = "store_conflict" =>
           /\ MockConflictKnown(mock_data, fb_last.company, fb_last.id)
           /\ mock_data.conflicts[fb_last.company][fb_last.id].status = "open"
           /\ \E r \in GetActiveConflicts(fb_last.company) : r.id = fb_last.id
      /\ (fb_last.op = "resolve_conflict" /\ fb_last.ret = "True") =>
           /\ MockConflictKnown(mock_data, fb_last.company, fb_last.id)
           /\ mock_data.conflicts[fb_last.company][fb_last.id].status = "resolved"
           /\ mock_data.conflicts[fb_last.company][fb_last.id].resolution = fb_last.arg
           /\ \A r \in GetActiveConflicts(fb_last.company) : r.id # fb_last.id

\* a conflict was stored, seen open, and then resolved with True
C2_Witness ==
    /\ has_mock
    /\ fb_last.op = "resolve_conflict"
    /\ fb_last.ret = "True"
    /\ \E c \in Company : c # fb_last.company /\ GetActiveConflicts(c) # {}

\* what the getters return for company b
Getters(b) ==
    [active |-> GetActiveConflicts(b),
     predictions |-> [m \in ModelTypes \cup {"None"} |->
                        [l \in Limits |-> GetRecentPredictions(b, m, l)]],
     has_company |-> b \in DOMAIN mock_data.companies,
     company |-> IF b \in DOMAIN mock_data.companies
                 THEN GetCompanyData(b) ELSE SampleCompany,
     space |-> [h \in {1, 24} |-> GetSpaceData(b, h)],
     energy |-> [h \in {1, 24} |-> GetEnergyData(b, h)]]

WriteOps == {"store_conflict", "resolve_conflict", "store_ai_prediction",
             "update_space_occupancy"}

ThresholdViolated(space) ==
    LET occupancy == Get(space, "current_occupancy", 0)
        capacity == Get(space, "capacity", 10)
        temperature == Get(space, "temperature", 22)
        humidity == Get(space, "humidity", 45)
        co2 == Get(space, "co2_level", 400)
        noise == Get(space, "noise_level", 45)
    IN \/ (capacity # 0 /\ occupancy * 100 > 85 * capacity)
       \/ temperature < 20 \/ temperature > 26
       \/ humidity < 30 \/ humidity > 70
       \/ co2 > 1000
       \/ noise > 70

EntriesFor(id) == {i \in DOMAIN det_result : det_result[i].space_id = id}

\* C4: detect_conflicts returns exactly one entry for a space if at least
\* one threshold is violated for it and no entry otherwise, and every entry
\* belongs to a space of the input.
C4_EntryIffViolated ==
    det_pc = "done" =>
      /\ \A i \in DOMAIN det_data :
           Cardinality(EntriesFor(det_data[i]["id"])) =
               IF ThresholdViolated(det_data[i]) THEN 1 ELSE 0
      /\ \A j \in DOMAIN det_result :
           \E i \in DOMAIN det_data : det_data[i]["id"] = det_result[j].space_id

\* a call whose input has a violating space and a clean space that sends
\* readings, the violating one relying on the default capacity
C4_Witness ==
    /\ det_pc = "done"
    /\ Len(det_result) = 1
    /\ \E i, j \in DOMAIN det_data :
         /\ ThresholdViolated(det_data[i])
         /\ "capacity" \notin DOMAIN det_data[i]
         /\ "current_occupancy" \in DOMAIN det_data[i]
         /\ ~ThresholdViolated(det_data[j])
         /\ "temperature" \in DOMAIN det_data[j]

(***************************************************************************)
(* Claims about the enhanced predictors                                    *)
(***************************************************************************)
EnergyPredictOps == {"predict_energy_consumption", "predict_24h_consumption"}

RECURSIVE SumOver(_, _)
SumOver(f, S) ==
    IF S = {} THEN 0
    ELSE LET x == CHOOSE y \in S : TRUE IN f[x] + SumOver(f, S \ {x})

MinOf(f) == CHOOSE v \in {f[m] : m \in DOMAIN f} : \A m \in DOMAIN f : v <= f[m]
MaxOf(f) == CHOOSE v \in {f[m] : m \in DOMAIN f} : \A m \in DOMAIN f : v >= f[m]

\* C5: predicted_consumption (the fraction num/den) of a returned
\* predict_energy_consumption is sum(w_m * p_m) / sum(w_m) with
\* w_m = max(0.1, test_r2 of m); the divisor is positive and the result lies
\* between the smallest and the largest individual prediction.
C5_WeightedAverage ==
    (ee_last.op = "predict_energy_consumption" /\ ee_last.outcome = "returned") =>
      LET w == [m \in Models |-> IF ee_r2[m] > 10 THEN ee_r2[m] ELSE 10]
          wp == [m \in Models |-> w[m] * ee_last.preds[m]]
      IN /\ ee_last.den = SumOver(w, Models)
         /\ ee_last.num = SumOver(wp, Models)
         /\ ee_last.den > 0
         /\ MinOf(ee_last.preds) * ee_last.den <= ee_last.num
         /\ ee_last.num <= MaxOf(ee_last.preds) * ee_last.den

\* a prediction whose models disagree and where one model's r2 is below 0.1
C5_Witness ==
    /\ ee_last.op = "predict_energy_consumption"
    /\ ee_last.outcome = "returned"
    /\ \E m \in Models : ee_r2[m] < 10
    /\ \E m \in Models : ee_r2[m] > 10
    /\ MinOf(ee_last.preds) < MaxOf(ee_last.preds)
    /\ MinOf(ee_last.preds) < 0

\* C6: whenever predict_energy_consumption, predict_24h_consumption or
\* predict_utilization has returned, is_trained is true; and a model that is
\* already trained is trained again (its training count or its metrics
\* change) only by an explicit train call, never by a predict call.
C6_TrainedBeforePredict ==
    /\ [](/\ (ee_last.op \in EnergyPredictOps /\ ee_last.outcome = "returned")
                => ee_trained
          /\ (so_last.op = "predict_utilization" /\ so_last.outcome = "returned")
                => so_trained)
    /\ [][/\ (ee_trained /\ (ee_trainings' # ee_trainings \/ ee_r2' # ee_r2))
                => ee_last'.op = "train_ensemble_model"
          /\ (so_trained /\ so_trainings' # so_trainings)
                => so_last'.op = "train_model"]_vars

\* both predictors were trained by their first predict call and have been
\* asked to predict again since
C6_Witness ==
    /\ ee_last.op = "predict_24h_consumption" /\ ee_last.outcome = "returned"
    /\ so_last.op = "predict_utilization" /\ so_last.outcome = "returned"
    /\ ee_trainings = 1 /\ so_trainings = 1

(***************************************************************************)
(* C7: EnergyPredictorAI.predict succeeds only after a train call has      *)
(* completed; called while is_trained is false (also after the training at *)
(* import failed) it raises ValueError "Model must be trained before       *)
(* making predictions" and changes no state of the predictor.              *)
(***************************************************************************)
C7_PredictNeedsTraining ==
    /\ [](/\ (ep_last.op = "predict" /\ ep_last.outcome = "returned") => ep_trained
          /\ ep_trained => (ep_model /\ ep_scaler /\ ep_has_features))
    /\ [][(~ep_trained /\ ep_last'.op = "predict")
            => /\ ep_last'.outcome = "ValueError"
               /\ UNCHANGED <<ep_pc, ep_trained, ep_encoders, ep_has_features,
                              ep_features, ep_scaler, ep_model, ep_model_cols>>]_vars

\* the training at import failed in the fit, after preprocess_data had stored
\* encoders and scaler, and a predict call has been refused
C7_Witness ==
    /\ ep_last.op = "predict" /\ ep_last.outcome = "ValueError"
    /\ ~ep_trained /\ ep_scaler /\ ep_encoders = CategoricalColumns

(***************************************************************************)
(* C8: Backend/main.py answers a client error with the status the handler  *)
(* raises for it: update_employee and delete_employee answer 404 "Employee *)
(* not found" for an id that is not in the store, login answers 401        *)
(* "Invalid credentials" for an empty email or password, the dashboard     *)
(* export answers 400 "Unsupported report type" for an unknown type.       *)
(***************************************************************************)
C8_ClientErrorStatus ==
    [][http_last'.app = "main" =>
         /\ (/\ http_last'.handler \in {"update_employee", "delete_employee"}
             /\ http_last'.req.id \notin EmployeeIds(employees))
               => (/\ http_last'.resp.status = 404
                   /\ http_last'.resp.error = "Employee not found")
         /\ (/\ http_last'.handler = "login"
             /\ (http_last'.req.email = "" \/ http_last'.req.password = ""))
               => (/\ http_last'.resp.status = 401
                   /\ http_last'.resp.error = "Invalid credentials")
         /\ (/\ http_last'.handler = "export_report"
             /\ http_last'.req.report_type \notin {"csv", "excel", "pdf"})
               => (/\ http_last'.resp.status = 400
                   /\ http_last'.resp.error = "Unsupported report type")]_vars

(***************************************************************************)
(* C9: in a request handler that wraps its body in try/except, every       *)
(* exception raised while the request is processed is answered with a 500  *)
(* response that carries an error message, never with a success status.    *)
(***************************************************************************)
C9_ExceptionAnswered500 ==
    http_last.resp.raised =>
        /\ http_last.resp.status = 500
        /\ http_last.resp.error \notin {"none", ""}
        /\ ~http_last.resp.token

\* the three applications have each answered a raised exception: a Flask
\* login without a JSON body is the last of them
C9_Witness ==
    /\ http_last.app = "app" /\ http_last.handler = "login"
    /\ ~http_last.req.json
    /\ http_last.resp.raised /\ http_last.resp.status = 500

(***************************************************************************)
(* C10: the login of flask_backend/app.py answers a JSON body whose        *)
(* 'email' contains '@' and whose 'password' is not empty with 200, an     *)
(* access_token and the user record, and a body without email or without   *)
(* password with 400 "Email and password required".                        *)
(***************************************************************************)
C10_LoginAcceptsValidEmail ==
    (/\ http_last.app = "flask_backend" /\ http_last.handler = "login"
     /\ http_last.req.json)
    => LET email == Get(http_last.req.data, "email", NoneVal)
           password == Get(http_last.req.data, "password", NoneVal)
       IN /\ (ContainsAt(email) /\ ~Falsy(password))
               => (http_last.resp.status = 200 /\ http_last.resp.token)
          /\ (email = NoneVal \/ password = NoneVal)
               => (/\ http_last.resp.status = 400
                   /\ http_last.resp.error = "Email and password required")

(***************************************************************************)
(* C11: an endpoint of flask_backend/app.py other than login and health    *)
(* answers 401 and runs none of its handler body when the request carries  *)
(* no token, an invalid token or an expired token; only a request with a   *)
(* token that login issued (and that has not expired) reaches the handler. *)
(***************************************************************************)
C11_ProtectedNeedsToken ==
    jwt_last.endpoint \in ProtectedEndpoints =>
        LET t == jwt_last.token
            valid == /\ t.kind = "issued"
                     /\ [id |-> t.id, exp |-> t.exp] \in jwt_issued
                     /\ jwt_last.at < t.exp
        IN /\ ~valid => (jwt_last.status = 401 /\ ~jwt_last.body_ran)
           /\ jwt_last.body_ran => valid
           /\ valid => jwt_last.body_ran

\* a token that login issued has expired and a request carrying it to a
\* protected endpoint was answered 401
C11_Witness ==
    /\ jwt_last.endpoint = "add_employee"
    /\ jwt_last.token.kind = "issued"
    /\ jwt_last.at >= jwt_last.token.exp
    /\ jwt_last.status = 401
    /\ jwt_last.error = "Token has expired"

(***************************************************************************)
(* C12: the background refresh loop never stops because of a failure: an   *)
(* exception of any refresh step is caught, and after the retry delay the  *)
(* loop starts another pass; passes keep starting for as long as the       *)
(* process runs.                                                           *)
(***************************************************************************)
C12_LoopKeepsRefreshing ==
    /\ [](loop_pc # "dead")
    /\ [](loop_pc = "caught" => <>(loop_pc = "occupancy"))
    /\ []<>(loop_pc = "occupancy")

\* after a pass in which the second step raised, the error was logged, the
\* retry delay passed, and a later pass ran to its end
C12_Witness ==
    /\ loop_errors > 0
    /\ loop_last.outcome = "succeeded"
    /\ loop_slept >= SleepAfterError + SleepAfterSuccess

(***************************************************************************)
(* C13: the background loop waits 30 seconds after a pass that succeeded   *)
(* and 60 seconds before it retries after a pass that raised an exception. *)
(***************************************************************************)
C13_RetryDelay ==
    /\ loop_last.outcome = "succeeded" => loop_last.delay = 30
    /\ loop_last.outcome = "raised" => loop_last.delay = 60

(***************************************************************************)
(* C14: every utilization that get_space_data and get_detailed_spaces of   *)
(* Backend/main.py return is the ratio current/capacity of its space and   *)
(* lies in [0,1]: the current occupancy is never negative and never        *)
(* exceeds the capacity.                                                   *)
(***************************************************************************)
C14_UtilizationInRange ==
    \A list \in {spaces, spaces_detailed} :
      \A i \in DOMAIN list :
        /\ list[i].utilization = Ratio(list[i].current, list[i].capacity)
        /\ list[i].capacity > 0
        /\ 0 <= list[i].utilization.num
        /\ list[i].utilization.num <= list[i].utilization.den

\* the part of C14 that holds: get_detailed_spaces draws the occupancy below
\* 80% of the capacity
C14_DetailedInRange ==
    \A i \in DOMAIN spaces_detailed :
        /\ 0 <= spaces_detailed[i].current
        /\ spaces_detailed[i].current * 10 < spaces_detailed[i].capacity * 8

(***************************************************************************)
(* C15: resolve_conflict returns a boolean in every case: True when the    *)
(* conflict was marked resolved and False when it was not, in particular   *)
(* when the company or the conflict id is unknown to the mock database,    *)
(* and then no stored conflict is changed.                                 *)
(***************************************************************************)
C15_ResolveReturnsBoolean ==
    [][fb_last'.op = "resolve_conflict" =>
         /\ fb_last'.ret \in {"True", "False"}
         /\ (has_mock /\ ~MockConflictKnown(mock_data, fb_last'.company, fb_last'.id))
               => (fb_last'.ret = "False" /\ mock_data' = mock_data)]_vars

\* the part of C15 that holds: a resolve_conflict for an unknown company or
\* conflict id changes nothing in the mock, and True means it was resolved
C15_UnknownChangesNothing ==
    [][(has_mock /\ fb_last'.op = "resolve_conflict") =>
         /\ ~MockConflictKnown(mock_data, fb_last'.company, fb_last'.id)
               => mock_data' = mock_data
         /\ fb_last'.ret = "True"
               => mock_data'.conflicts[fb_last'.company][fb_last'.id].status = "resolved"]_vars

(***************************************************************************)
(* C16: after FirebaseService has fallen back to the mock database, the    *)
(* sample data is in the mock: get_company_data('demo_company') returns    *)
(* the sample company, get_energy_data and get_space_data return its 24    *)
(* hourly readings, and authenticate_user accepts a sample employee's      *)
(* e-mail address with the demo password.                                  *)
(***************************************************************************)
C16_MockHasSampleData ==
    (fb_pc = "ready" /\ has_mock) =>
        /\ "demo_company" \in DOMAIN mock_data.companies
        /\ GetCompanyData("demo_company") = SampleCompany
        /\ GetEnergyData("demo_company", 24) = SampleEnergyData
        /\ GetSpaceData("demo_company", 24) = SampleSpaceData
        /\ \A e \in SampleEmails : AuthenticateUser(e, "password") = e

\* what holds instead: the mock database never holds a company or readings,
\* and only the demo administrator can be authenticated
C16_MockStaysEmpty ==
    (fb_pc = "ready" /\ has_mock) =>
        /\ DOMAIN mock_data.companies = {}
        /\ GetEnergyData("demo_company", 24) = <<>>
        /\ GetSpaceData("demo_company", 24) = <<>>
        /\ \A e \in SampleEmails : AuthenticateUser(e, "password") = "None"
        /\ AuthenticateUser("admin@demo.com", "password") = "admin_001"

(***************************************************************************)
(* C17: initialize_firebase is a singleton: over any number of calls to it *)
(* or to the helpers built on get_db_ref, sequential or concurrent from    *)
(* several request threads, firebase_admin.initialize_app is invoked at    *)
(* most once and no call fails because the app already exists.             *)
(***************************************************************************)
C17_InitializedOnce ==
    /\ fs_init_calls <= 1
    /\ \A t \in Threads : fs_result[t] # "ValueError"

\* the part of C17 that holds: as long as no two calls were in progress at
\* the same time, initialize_app is invoked at most once and never fails
\* because the app exists
C17_SequentialOnce ==
    ~fs_overlap =>
        /\ fs_init_calls <= 1
        /\ \A t \in Threads : fs_result[t] # "ValueError"

====
